---- MODULE Spec2Model ----
(***************************************************************************)
(* Model of packages/gatsby-source-contentful/src/generate-schema.js:      *)
(* the dispatch table ContentfulDataTypes, getLinkFieldType,               *)
(* translateFieldType, generateSchema and the rich-text links resolver.    *)
(*                                                                         *)
(* Strings that the code assembles with template literals are sequences    *)
(* of tokens: a type string such as `[ContentfulAsset]!` is                *)
(* <<"[", "ContentfulAsset", "]", "!">>.  Identifier tokens never hold a   *)
(* bracket or a bang, so "ends with !" is "the last token is !".           *)
(* JavaScript objects live in a heap (a sequence, addressed by index) so   *)
(* that aliasing and in-place mutation (fieldType.type = ...) are visible. *)
(***************************************************************************)
EXTENDS Naturals, Sequences, FiniteSets, TLC

VARIABLES
  heap,             \* every descriptor object allocated so far
  calls,            \* translateFieldType calls made directly: field, outcome
  contentTypeItems, \* input of generateSchema
  pluginConfig,     \* input of generateSchema
  pc,               \* position of generateSchema
  fixedDone,        \* number of fixed createTypes calls that returned
  itemsDone,        \* number of loop iterations that completed
  received,         \* declarations handed to createTypes, in call order
  registered,       \* declarations createTypes accepted, in call order
  thrown,           \* the message of the error generateSchema raised, or <<>>
  refusal,          \* the registrar operation that refused a declaration, or ""
  nodeStore,        \* context.nodeModel.getAllNodes()
  storeReads,       \* number of getAllNodes() calls so far
  lastResolve       \* the last resolver invocation: arguments and result

vars == <<heap, calls, contentTypeItems, pluginConfig, pc, fixedDone, itemsDone,
          received, registered, thrown, refusal, nodeStore, storeReads, lastResolve>>

schemaVars == <<contentTypeItems, pluginConfig, pc, fixedDone, itemsDone,
                received, registered, thrown, refusal>>

resolveVars == <<nodeStore, storeReads, lastResolve>>

(***************************************************************************)
(* Bounds                                                                  *)
(***************************************************************************)
MaxCalls == 2

MaxItems == 2

MaxNodes == 2

MaxFields == 2

MaxResolves == 1

(***************************************************************************)
(* JavaScript values                                                       *)
(***************************************************************************)
\* A property that is absent reads as undefined; `${undefined}` is "undefined".
Undefined == "undefined"

Get(obj, key) == IF key \in DOMAIN obj THEN obj[key] ELSE Undefined

\* field.required, field.disabled, field.omitted: absent is falsy.
Truthy(obj, key) == key \in DOMAIN obj /\ obj[key] = TRUE

EmptyObject == <<>>

\* `[${t}]`
WrapList(t) == <<"[">> \o t \o <<"]">>

DoubleBang(t) == t \o <<"!", "!">>

\* `${t}!`
AppendRequired(t) == t \o <<"!">>

\* `${field.id}___NODE`
NodeLink(field) == Get(field, "id") \o "___NODE"

(***************************************************************************)
(* The dispatch table and the link descriptor                              *)
(***************************************************************************)
PrimitiveTypes ==
  {"Symbol", "Text", "Integer", "Number", "Date", "Object", "Boolean",
   "Location", "RichText"}

\* The object literal the closure registered for t returns.
ContentfulDataTypes(t, field) ==
  CASE t = "Symbol"   -> [type |-> <<"String">>]
    [] t = "Text"     -> [type |-> <<"ContentfulText">>,
                          extensions |-> [link |-> [by |-> "id", from |-> NodeLink(field)]]]
    [] t = "Integer"  -> [type |-> <<"Int">>]
    [] t = "Number"   -> [type |-> <<"Float">>]
    [] t = "Date"     -> [type |-> <<"Date">>,
                          extensions |-> [dateformat |-> EmptyObject]]
    [] t = "Object"   -> [type |-> <<"JSON">>]
    [] t = "Boolean"  -> [type |-> <<"Boolean">>]
    [] t = "Location" -> [type |-> <<"ContentfulLocation">>]
    [] t = "RichText" -> [type |-> <<"ContentfulRichText">>]

getLinkFieldType(linkType, field) ==
  [type |-> <<"Contentful" \o linkType>>,
   extensions |-> [link |-> [by |-> "id", from |-> NodeLink(field)]]]

(***************************************************************************)
(* Heap: an object literal evaluates to a fresh object                     *)
(***************************************************************************)
Returned(h, r) == [heap |-> h, threw |-> FALSE, ref |-> r, message |-> ""]

Throw(h, msg) == [heap |-> h, threw |-> TRUE, ref |-> 0, message |-> msg]

NewObject(h, obj) == Returned(Append(h, obj), Len(h) + 1)

\* A table that kept one descriptor per type and handed it out again.
DispatchMemoised(h, field) ==
  LET fresh == ContentfulDataTypes(field.type, field)
      old   == {i \in 1..Len(h) : h[i].type[1] = fresh.type[1]}
  IN  IF old = {} THEN NewObject(h, fresh)
      ELSE Returned(h, CHOOSE i \in old : \A j \in old : i <= j)

\* ContentfulDataTypes.get(field.type)(field), for a registered type
Dispatch(h, field) == NewObject(h, ContentfulDataTypes(field.type, field))

TypeErrorNotAFunction == "ContentfulDataTypes.get(...) is not a function"

TypeErrorNoItems == "Cannot read properties of undefined (reading 'type')"

(***************************************************************************)
(* translateFieldType                                                      *)
(***************************************************************************)
RECURSIVE translateFieldType(_, _)
translateFieldType(h, field) ==
  LET built ==
        IF field.type = "Array" THEN
          IF "items" \notin DOMAIN field THEN Throw(h, TypeErrorNoItems)
          ELSE
            LET fieldData ==
                  IF field.items.type = "Link"
                  THEN NewObject(h, getLinkFieldType(Get(field.items, "linkType"), field))
                  ELSE translateFieldType(h, field.items)
            IN  IF fieldData.threw THEN fieldData
                ELSE NewObject(fieldData.heap,
                       [fieldData.heap[fieldData.ref] EXCEPT !.type = WrapList(@)])
        ELSE IF field.type = "Link" THEN
          NewObject(h, getLinkFieldType(Get(field, "linkType"), field))
        ELSE IF field.type \notin PrimitiveTypes THEN Throw(h, TypeErrorNotAFunction)
        ELSE Dispatch(h, field)
  IN  IF built.threw \/ ~Truthy(field, "required") THEN built
      ELSE [built EXCEPT !.heap[built.ref].type = AppendRequired(@)]

(***************************************************************************)
(* Field definitions the translator is called with                         *)
(***************************************************************************)
UnknownType == "ResourceLink"

LinkTypes == {"Asset", "Entry"}

ItemDefinitions ==
  [type : PrimitiveTypes \cup {UnknownType}]
    \cup [type : {"Link"}, linkType : LinkTypes]
    \cup [type : {"Symbol"}, required : {TRUE}]
    \cup [type : {"Link"}, linkType : {"Asset"}, required : {TRUE}]
    \cup [type : {"Text"}, id : {"body"}]

FieldDefinitions ==
  [id : {"title"}, type : (PrimitiveTypes \ {"Text"}) \cup {UnknownType}, required : BOOLEAN]
    \cup [id : {"body", "cover"}, type : {"Text"}, required : BOOLEAN]
    \cup [id : {"author", "cover"}, type : {"Link"}, linkType : LinkTypes, required : BOOLEAN]
    \cup [id : {"cover"}, type : {"Array"}, required : BOOLEAN, items : ItemDefinitions]
    \cup [id : {"cover"}, type : {"Array"}, required : BOOLEAN]

(***************************************************************************)
(* Direct calls of translateFieldType, one after another                   *)
(***************************************************************************)
IdleSchema ==
  /\ contentTypeItems = <<>>
  /\ pluginConfig = [useNameForId |-> FALSE, downloadLocal |-> FALSE]
  /\ pc = "idle"
  /\ fixedDone = 0
  /\ itemsDone = 0
  /\ received = <<>>
  /\ registered = <<>>
  /\ thrown = <<>>
  /\ refusal = ""

IdleResolve ==
  /\ nodeStore = <<>>
  /\ storeReads = 0
  /\ lastResolve = <<>>

InitTranslate ==
  /\ heap = <<>>
  /\ calls = <<>>
  /\ IdleSchema
  /\ IdleResolve

\* One call; the record keeps the descriptor as it was when the call returned.
Translate ==
  /\ Len(calls) < MaxCalls
  /\ \E field \in FieldDefinitions :
       LET r == translateFieldType(heap, field)
       IN  /\ heap' = r.heap
           /\ calls' = Append(calls,
                [field |-> field, threw |-> r.threw, ref |-> r.ref,
                 message |-> r.message,
                 value |-> IF r.threw THEN EmptyObject ELSE r.heap[r.ref]])
  /\ UNCHANGED <<schemaVars, resolveVars>>

NextTranslate == Translate

SpecTranslate == InitTranslate /\ [][NextTranslate]_vars

(***************************************************************************)
(* generateSchema: the fixed declarations, in the order of the createTypes *)
(* calls.  A declaration is what the registrar is handed: its name, kind,  *)
(* interfaces, whether inference is switched off (@dontInfer or            *)
(* extensions.dontInfer) and its field map.                                *)
(***************************************************************************)
T(name) == [type |-> <<name>>]

Req(name) == [type |-> <<name, "!">>]

ReqList(name) == [type |-> <<"[", name, "]", "!">>]

LinkedTo(d, from) ==
  [type |-> d.type, extensions |-> [link |-> [by |-> "id", from |-> from]]]

\* The resolver a field is registered with: the arguments of
\* makeRichTextLinksResolver, kept for the invocation at query time.
Resolving(d, nodeType, entityType) ==
  [type |-> d.type, resolve |-> <<nodeType, entityType>>]

ReturnsSource(d) == [type |-> d.type, resolve |-> <<"source">>]

ContentfulReference ==
  [name |-> "ContentfulReference", kind |-> "interface", interfaces |-> {"Node"},
   dontInfer |-> FALSE,
   fields |-> [id |-> Req("ID"), sys |-> Req("ContentfulSys")]]

ContentfulContentType ==
  [name |-> "ContentfulContentType", kind |-> "type", interfaces |-> {"Node"},
   dontInfer |-> FALSE,
   fields |-> [id |-> Req("ID"), name |-> Req("String"),
               displayField |-> Req("String"), description |-> Req("String")]]

ContentfulSys ==
  [name |-> "ContentfulSys", kind |-> "type", interfaces |-> {},
   dontInfer |-> TRUE,
   fields |-> [type |-> Req("String"), id |-> Req("String"),
               spaceId |-> Req("String"), environmentId |-> Req("String"),
               contentType |-> LinkedTo(T("ContentfulContentType"), "contentType___NODE"),
               firstPublishedAt |-> Req("Date"), publishedAt |-> Req("Date"),
               publishedVersion |-> Req("Int"), locale |-> Req("String")]]

ContentfulEntry ==
  [name |-> "ContentfulEntry", kind |-> "interface",
   interfaces |-> {"ContentfulReference", "Node"},
   dontInfer |-> TRUE,
   fields |-> [id |-> Req("ID"), sys |-> Req("ContentfulSys"),
               metadata |-> Req("ContentfulMetadata")]]

ContentfulMetadata ==
  [name |-> "ContentfulMetadata", kind |-> "type", interfaces |-> {},
   dontInfer |-> TRUE,
   fields |-> [tags |-> LinkedTo(ReqList("ContentfulTag"), "tags___NODE")]]

ContentfulTag ==
  [name |-> "ContentfulTag", kind |-> "type", interfaces |-> {"Node"},
   dontInfer |-> TRUE,
   fields |-> [name |-> Req("String"), contentful_id |-> Req("String"),
               id |-> Req("ID")]]

\* ...(pluginConfig.get(`downloadLocal`) ? { localFile: ... } : {})
LocalFile(config) ==
  IF config.downloadLocal
  THEN [localFile |-> [type |-> <<"File">>,
                       extensions |-> [link |-> [from |-> "fields.localFile"]]]]
  ELSE EmptyObject

\* The object handed to addRemoteFilePolyfillInterface, whose result is
\* what createTypes receives; the helper is a collaborator and is taken to
\* keep the name and the extensions of the type it is given.
ContentfulAsset(config) ==
  [name |-> "ContentfulAsset", kind |-> "type",
   interfaces |-> {"ContentfulReference", "Node"},
   dontInfer |-> FALSE,
   fields |->
     [contentful_id |-> Req("String"), id |-> Req("ID"),
      gatsbyImageData |-> [config |-> "getGatsbyImageFieldConfig"]]
     @@ LocalFile(config)
     @@ [sys |-> T("ContentfulSys"), title |-> T("String"),
         description |-> T("String"), contentType |-> T("String"),
         fileName |-> T("String"), url |-> T("String"), size |-> T("Int"),
         width |-> T("Int"), height |-> T("Int"),
         metadata |-> Req("ContentfulMetadata")]]

ContentfulRichTextAssets ==
  [name |-> "ContentfulRichTextAssets", kind |-> "type", interfaces |-> {},
   dontInfer |-> FALSE,
   fields |->
     [block |-> Resolving(ReqList("ContentfulAsset"), "embedded-asset-block", "Asset"),
      hyperlink |-> Resolving(ReqList("ContentfulAsset"), "asset-hyperlink", "Asset")]]

ContentfulRichTextEntries ==
  [name |-> "ContentfulRichTextEntries", kind |-> "type", interfaces |-> {},
   dontInfer |-> FALSE,
   fields |->
     [inline |-> Resolving(ReqList("ContentfulEntry"), "embedded-entry-inline", "Entry"),
      block |-> Resolving(ReqList("ContentfulEntry"), "embedded-entry-block", "Entry"),
      hyperlink |-> Resolving(ReqList("ContentfulEntry"), "entry-hyperlink", "Entry")]]

ContentfulRichTextLinks ==
  [name |-> "ContentfulRichTextLinks", kind |-> "type", interfaces |-> {},
   dontInfer |-> FALSE,
   fields |-> [assets |-> ReturnsSource(T("ContentfulRichTextAssets")),
               entries |-> ReturnsSource(T("ContentfulRichTextEntries"))]]

ContentfulRichText ==
  [name |-> "ContentfulRichText", kind |-> "type", interfaces |-> {},
   dontInfer |-> TRUE,
   fields |-> [json |-> ReturnsSource(T("JSON")),
               links |-> ReturnsSource(T("ContentfulRichTextLinks"))]]

ContentfulLocation ==
  [name |-> "ContentfulLocation", kind |-> "type", interfaces |-> {},
   dontInfer |-> TRUE,
   fields |-> [lat |-> Req("Float"), lon |-> Req("Float")]]

ContentfulText ==
  [name |-> "ContentfulText", kind |-> "type", interfaces |-> {"Node"},
   dontInfer |-> TRUE,
   fields |-> [raw |-> Req("String")]]

\* Location and Text declared the other way round.
FixedDeclarationsSwapped(config) ==
  <<ContentfulReference, ContentfulContentType, ContentfulSys, ContentfulEntry,
    ContentfulMetadata, ContentfulTag, ContentfulAsset(config),
    ContentfulRichTextAssets, ContentfulRichTextEntries, ContentfulRichTextLinks,
    ContentfulRichText, ContentfulText, ContentfulLocation>>

FixedDeclarations(config) ==
  <<ContentfulReference, ContentfulContentType, ContentfulSys, ContentfulEntry,
    ContentfulMetadata, ContentfulTag, ContentfulAsset(config),
    ContentfulRichTextAssets, ContentfulRichTextEntries, ContentfulRichTextLinks,
    ContentfulRichText, ContentfulLocation, ContentfulText>>

\* The first four declarations are schema-language strings given to
\* createTypes; the others go through schema.buildObjectType first.
BuiltWithObjectType(n) == n > 4

(***************************************************************************)
(* generateSchema: one object type per content type item                   *)
(***************************************************************************)
SkippedIfDisabled(field) == Truthy(field, "disabled")

\* if (field.disabled || field.omitted) return
Skipped(field) == Truthy(field, "disabled") \/ Truthy(field, "omitted")

\* fields[field.id] = ...
Put(obj, key, value) ==
  [k \in DOMAIN obj \cup {key} |-> IF k = key THEN value ELSE obj[k]]

\* contentTypeItem.fields.forEach(...): the map from field id to the
\* descriptor object, or the error of the first translation that throws.
RECURSIVE BuildFields(_, _, _)
BuildFields(h, fieldList, fields) ==
  IF fieldList = <<>>
  THEN [heap |-> h, threw |-> FALSE, message |-> "", fields |-> fields]
  ELSE
    LET field == Head(fieldList)
    IN  IF Skipped(field) THEN BuildFields(h, Tail(fieldList), fields)
        ELSE
          LET r == translateFieldType(h, field)
          IN  IF r.threw
              THEN [heap |-> r.heap, threw |-> TRUE, message |-> r.message,
                    fields |-> fields]
              ELSE BuildFields(r.heap, Tail(fieldList), Put(fields, field.id, r.ref))

\* makeTypeName of ./normalize: one type-name token per input.
makeTypeName(type) == "makeTypeName(" \o type \o ")"

\* pluginConfig.get(`useNameForId`) ? contentTypeItem.name : contentTypeItem.sys.id
TypeNameOf(config, item) ==
  makeTypeName(IF config.useNameForId THEN item.name ELSE item.sys.id)

\* { id, sys, metadata, ...fields }: a later key replaces an earlier one.
ObjectTypeFields(h, fields) ==
  [k \in {"id", "sys", "metadata"} \cup DOMAIN fields |->
     IF k \in DOMAIN fields THEN h[fields[k]]
     ELSE CASE k = "id"       -> Req("ID")
            [] k = "sys"      -> Req("ContentfulSys")
            [] k = "metadata" -> Req("ContentfulMetadata")]

ContentTypeDeclaration(config, item, h, fields) ==
  [name |-> TypeNameOf(config, item), kind |-> "type",
   interfaces |-> {"ContentfulReference", "ContentfulEntry", "Node"},
   dontInfer |-> TRUE,
   fields |-> ObjectTypeFields(h, fields)]

NameOnly(item) == item.name

\* contentTypeItem.name || contentTypeItem.sys.id
DisplayName(item) == IF item.name # "" THEN item.name ELSE item.sys.id

MessageWithoutOriginal(item, message) ==
  <<"Unable to create schema for Contentful Content Type ", DisplayName(item), ":\n">>

\* err.message = `Unable to create schema for Contentful Content Type ${...}:\n${err.message}`
AugmentedMessage(item, message) ==
  <<"Unable to create schema for Contentful Content Type ", DisplayName(item), ":\n">>
    \o message

\* What the registrar says when it refuses a declaration.
RegistrarError == "Schema must contain uniquely named types"

\* The two registrar operations that can refuse.
RegistrarOperations == {"buildObjectType", "createTypes"}

(***************************************************************************)
(* generateSchema: inputs                                                  *)
(***************************************************************************)
ContentType(name, id, fieldList) ==
  [name |-> name, sys |-> [id |-> id], fields |-> fieldList]

\* Content types for runs over several items.
FewFieldLists ==
  {<<>>,
   <<[id |-> "title", type |-> "Symbol", required |-> TRUE,
      disabled |-> FALSE, omitted |-> FALSE]>>,
   <<[id |-> "cover", type |-> "Array", required |-> FALSE,
      disabled |-> FALSE, omitted |-> FALSE]>>}

ContentTypes ==
  {ContentType(name, id, fieldList) :
     name \in {"", "Blog Post"}, id \in {"blogPost", "author"},
     fieldList \in FewFieldLists}

\* Fields for runs over one item: every combination of the skip flags,
\* translatable or not, with an id that is or is not one of the fixed keys.
SchemaFields ==
  [id : {"title", "sys", "cover"}, type : {"Symbol", UnknownType},
   required : {TRUE}, disabled : BOOLEAN, omitted : BOOLEAN]

SeqsUpTo(S, n) == UNION {[1..k -> S] : k \in 0..n}

\* Field ids are unique within a content type.
UniqueIds(fieldList) ==
  \A i, j \in 1..Len(fieldList) : fieldList[i].id = fieldList[j].id => i = j

FieldLists == {l \in SeqsUpTo(SchemaFields, MaxFields) : UniqueIds(l)}

ContentTypeItemLists ==
  SeqsUpTo(ContentTypes, MaxItems)
    \cup {<<ContentType("Page", "page", l)>> : l \in FieldLists}

Init ==
  /\ heap = <<>>
  /\ calls = <<>>
  /\ contentTypeItems \in ContentTypeItemLists
  /\ pluginConfig \in [useNameForId : BOOLEAN, downloadLocal : BOOLEAN]
  /\ pc = "fixed"
  /\ fixedDone = 0
  /\ itemsDone = 0
  /\ received = <<>>
  /\ registered = <<>>
  /\ thrown = <<>>
  /\ refusal = ""
  /\ IdleResolve

(***************************************************************************)
(* generateSchema: steps                                                   *)
(***************************************************************************)
NumFixed == Len(FixedDeclarations(pluginConfig))

\* One of the createTypes calls of lines 123-378 returns.
CreateFixedType ==
  /\ pc = "fixed"
  /\ LET decl == FixedDeclarations(pluginConfig)[fixedDone + 1]
     IN  /\ received' = Append(received, decl)
         /\ registered' = Append(registered, decl)
  /\ fixedDone' = fixedDone + 1
  /\ pc' = IF fixedDone + 1 = NumFixed THEN "loop" ELSE "fixed"
  /\ UNCHANGED <<heap, calls, contentTypeItems, pluginConfig, itemsDone, thrown,
                 refusal, resolveVars>>

\* The registrar refuses one of them: nothing catches the error.
CreateFixedTypeThrows ==
  /\ pc = "fixed"
  /\ \E op \in RegistrarOperations :
       /\ op = "buildObjectType" => BuiltWithObjectType(fixedDone + 1)
       /\ refusal' = op
       /\ received' = IF op = "createTypes"
                      THEN Append(received, FixedDeclarations(pluginConfig)[fixedDone + 1])
                      ELSE received
  /\ thrown' = <<RegistrarError>>
  /\ pc' = "failed"
  /\ UNCHANGED <<heap, calls, contentTypeItems, pluginConfig, fixedDone, itemsDone,
                 registered, resolveVars>>

\* One iteration of the loop whose try block completes.
CreateContentType ==
  /\ pc = "loop"
  /\ itemsDone < Len(contentTypeItems)
  /\ LET item  == contentTypeItems[itemsDone + 1]
         built == BuildFields(heap, item.fields, EmptyObject)
         decl  == ContentTypeDeclaration(pluginConfig, item, built.heap, built.fields)
     IN  /\ ~built.threw
         /\ heap' = built.heap
         /\ received' = Append(received, decl)
         /\ registered' = Append(registered, decl)
  /\ itemsDone' = itemsDone + 1
  /\ UNCHANGED <<calls, contentTypeItems, pluginConfig, pc, fixedDone, thrown,
                 refusal, resolveVars>>

\* One iteration in which translating a field throws: catch, rewrite the
\* message, rethrow.
ContentTypeTranslationThrows ==
  /\ pc = "loop"
  /\ itemsDone < Len(contentTypeItems)
  /\ LET item  == contentTypeItems[itemsDone + 1]
         built == BuildFields(heap, item.fields, EmptyObject)
     IN  /\ built.threw
         /\ heap' = built.heap
         /\ thrown' = AugmentedMessage(item, <<built.message>>)
  /\ pc' = "failed"
  /\ UNCHANGED <<calls, contentTypeItems, pluginConfig, fixedDone, itemsDone,
                 received, registered, refusal, resolveVars>>

\* One iteration in which the registrar refuses the object type: the call
\* is inside the try block, so the same catch rewrites the message.
ContentTypeRegistrarThrows ==
  /\ pc = "loop"
  /\ itemsDone < Len(contentTypeItems)
  /\ LET item  == contentTypeItems[itemsDone + 1]
         built == BuildFields(heap, item.fields, EmptyObject)
         decl  == ContentTypeDeclaration(pluginConfig, item, built.heap, built.fields)
     IN  /\ ~built.threw
         /\ heap' = built.heap
         /\ \E op \in RegistrarOperations :
              /\ refusal' = op
              /\ received' = IF op = "createTypes" THEN Append(received, decl)
                             ELSE received
         /\ thrown' = AugmentedMessage(item, <<RegistrarError>>)
  /\ pc' = "failed"
  /\ UNCHANGED <<calls, contentTypeItems, pluginConfig, fixedDone, itemsDone,
                 registered, resolveVars>>

\* The loop runs out of items and generateSchema returns.
Return ==
  /\ pc = "loop"
  /\ itemsDone = Len(contentTypeItems)
  /\ pc' = "done"
  /\ UNCHANGED <<heap, calls, contentTypeItems, pluginConfig, fixedDone, itemsDone,
                 received, registered, thrown, refusal, resolveVars>>

Next ==
  \/ CreateFixedType
  \/ CreateFixedTypeThrows
  \/ CreateContentType
  \/ ContentTypeTranslationThrows
  \/ ContentTypeRegistrarThrows
  \/ Return

Spec == Init /\ [][Next]_vars

(***************************************************************************)
(* The rich-text links resolver, invoked at query time                     *)
(***************************************************************************)
ThisPlugin == "gatsby-source-contentful"

Includes(list, x) == \E i \in 1..Len(list) : list[i] = x

AnyOwner(node, entityType, links) ==
  /\ "sys" \in DOMAIN node
  /\ "id" \in DOMAIN node.sys
  /\ node.sys.id # ""
  /\ Get(node.sys, "type") = entityType
  /\ Includes(links, node.sys.id)

\* The filter callback: owner, node?.sys?.id, node?.sys?.type, links.includes
LinkedNode(node, entityType, links) ==
  /\ node.internal.owner = ThisPlugin
  /\ "sys" \in DOMAIN node
  /\ "id" \in DOMAIN node.sys
  /\ node.sys.id # ""
  /\ Get(node.sys, "type") = entityType
  /\ Includes(links, node.sys.id)

\* The function makeRichTextLinksResolver(nodeType, entityType) returns,
\* applied to the node store; extracted is what getRichTextEntityLinks
\* returned for (source, nodeType), already mapped to ids.
makeRichTextLinksResolver(entityType, extracted, store) ==
  LET links == extracted[entityType]
  IN  SelectSeq(store, LAMBDA node : LinkedNode(node, entityType, links))

\* The resolvers the registered declarations carry.
RegisteredResolvers ==
  {registered[i].fields[f].resolve :
     <<i, f>> \in {<<j, g>> \in (1..Len(registered)) \X
                     {"block", "hyperlink", "inline"} :
                       /\ g \in DOMAIN registered[j].fields
                       /\ "resolve" \in DOMAIN registered[j].fields[g]
                       /\ Len(registered[j].fields[g].resolve) = 2}}

Nodes ==
  [internal : [owner : {ThisPlugin, "gatsby-source-filesystem"}],
   sys : [type : {"Asset", "Entry"}, id : {"a"}]]
    \cup {[internal |-> [owner |-> ThisPlugin], sys |-> [type |-> "Asset", id |-> "b"]],
          [internal |-> [owner |-> ThisPlugin]],
          [internal |-> [owner |-> ThisPlugin], sys |-> [type |-> "Asset"]]}

\* What the extractor returns for one entity type: ids in document order,
\* with or without a repeated id.
IdLists ==
  {<<>>, <<"a">>, <<"b">>, <<"a", "b">>, <<"b", "a">>, <<"a", "a">>}

InitResolve ==
  /\ heap = <<>>
  /\ calls = <<>>
  /\ contentTypeItems = <<>>
  /\ pluginConfig = [useNameForId |-> FALSE, downloadLocal |-> FALSE]
  /\ pc = "fixed"
  /\ fixedDone = 0
  /\ itemsDone = 0
  /\ received = <<>>
  /\ registered = <<>>
  /\ thrown = <<>>
  /\ refusal = ""
  /\ nodeStore \in SeqsUpTo(Nodes, MaxNodes)
  /\ storeReads = 0
  /\ lastResolve = <<>>

\* A query invokes one of the registered resolvers on a rich-text value.
Resolve ==
  /\ pc = "done"
  /\ storeReads < MaxResolves
  /\ \E resolver \in RegisteredResolvers :
       \E extracted \in [Asset : IdLists, Entry : IdLists] :
          lastResolve' =
            [nodeType |-> resolver[1], entityType |-> resolver[2],
             links |-> extracted[resolver[2]],
             result |-> makeRichTextLinksResolver(resolver[2], extracted, nodeStore)]
  /\ storeReads' = storeReads + 1
  /\ UNCHANGED <<heap, calls, schemaVars, nodeStore>>

NextResolve ==
  \/ CreateFixedType
  \/ Return
  \/ Resolve

SpecResolve == InitResolve /\ [][NextResolve]_vars

(***************************************************************************)
(* Claims about translateFieldType                                         *)
(***************************************************************************)
ReturnedCalls == {i \in 1..Len(calls) : ~calls[i].threw}

Last(t) == t[Len(t)]

EndsWithBang(t) == Len(t) >= 1 /\ Last(t) = "!"

\* The type string without its last token.
Front(t) == SubSeq(t, 1, Len(t) - 1)

\* C1: the type string a call returns ends with "!" exactly when
\* field.required is true, then with one "!" only, and the "!" is outermost:
\* below it an Array field's string is a bracketed list whose content ends
\* with "!" only on account of the items' own required flag.
C1_RequiredIsOutermost ==
  \A i \in ReturnedCalls :
    LET field == calls[i].field
        t     == calls[i].value.type
        body  == IF Truthy(field, "required") THEN Front(t) ELSE t
    IN  /\ EndsWithBang(t) <=> Truthy(field, "required")
        /\ Truthy(field, "required") => ~EndsWithBang(Front(t))
        /\ field.type = "Array" =>
             /\ Len(body) >= 3
             /\ body[1] = "["
             /\ Last(body) = "]"
             /\ EndsWithBang(SubSeq(body, 2, Len(body) - 1))
                  <=> (field.items.type # "Link" /\ Truthy(field.items, "required"))

C1_Witness ==
  \E i \in ReturnedCalls :
    /\ calls[i].field.type = "Array"
    /\ calls[i].field.items = [type |-> "Symbol"]
    /\ calls[i].field.required
    /\ calls[i].value.type = <<"[", "String", "]", "!">>

HasLink(d) == "extensions" \in DOMAIN d /\ "link" \in DOMAIN d.extensions

\* C3: whenever the returned descriptor carries a link extension, it is
\* {by: "id", from: field.id + "___NODE"} for the field passed to the call.
C3_LinkFromOuterField ==
  \A i \in ReturnedCalls :
    HasLink(calls[i].value) =>
      calls[i].value.extensions.link =
        [by |-> "id", from |-> calls[i].field.id \o "___NODE"]

\* The descriptors of the table in section 4.1, written out.
FixedDescriptor(t, id) ==
  CASE t = "Symbol"   -> [type |-> <<"String">>]
    [] t = "Text"     -> [type |-> <<"ContentfulText">>,
                          extensions |-> [link |-> [by |-> "id", from |-> id \o "___NODE"]]]
    [] t = "Integer"  -> [type |-> <<"Int">>]
    [] t = "Number"   -> [type |-> <<"Float">>]
    [] t = "Date"     -> [type |-> <<"Date">>, extensions |-> [dateformat |-> <<>>]]
    [] t = "Object"   -> [type |-> <<"JSON">>]
    [] t = "Boolean"  -> [type |-> <<"Boolean">>]
    [] t = "Location" -> [type |-> <<"ContentfulLocation">>]
    [] t = "RichText" -> [type |-> <<"ContentfulRichText">>]

\* C4: every call on a primitive field, the first as well as any later one,
\* returns the fixed descriptor of its type, with one "!" appended exactly
\* when the field is required; an object returned earlier is still what it
\* was when it was returned.
C4_PrimitiveDescriptors ==
  \A i \in 1..Len(calls) :
    calls[i].field.type \in PrimitiveTypes =>
      LET field == calls[i].field
          fixed == FixedDescriptor(field.type, field.id)
      IN  /\ ~calls[i].threw
          /\ calls[i].value =
               IF field.required
               THEN [fixed EXCEPT !.type = @ \o <<"!">>]
               ELSE fixed
          /\ heap[calls[i].ref] = calls[i].value

C4_Witness ==
  /\ Len(calls) >= 2
  /\ calls[1].field = [id |-> "title", type |-> "Symbol", required |-> TRUE]
  /\ calls[1].value = [type |-> <<"String", "!">>]
  /\ calls[2].field = [id |-> "title", type |-> "Symbol", required |-> FALSE]
  /\ calls[2].value = [type |-> <<"String">>]

(***************************************************************************)
(* Claims about generateSchema                                             *)
(***************************************************************************)
\* The registered object type of the k-th content type item.
ObjectTypeOf(k) == registered[NumFixed + k]

Enabled(field) == ~(field.disabled \/ field.omitted)

EnabledIds(item) ==
  {item.fields[i].id : i \in {j \in 1..Len(item.fields) : Enabled(item.fields[j])}}

Translatable(field) ==
  \/ field.type \in PrimitiveTypes \cup {"Link"}
  \/ field.type = "Array" /\ "items" \in DOMAIN field

\* The enabled fields of item that cannot be translated, by position.
Untranslatable(item) ==
  {i \in 1..Len(item.fields) :
     Enabled(item.fields[i]) /\ ~Translatable(item.fields[i])}

Contains(message, text) == \E i \in 1..Len(message) : message[i] = text

\* C2: every registered content-type object type declares id as ID!, sys as
\* ContentfulSys! and metadata as ContentfulMetadata!, whatever the fields
\* of its model are.
C2_FixedFieldsKeepTheirTypes ==
  \A k \in 1..itemsDone :
    /\ ObjectTypeOf(k).fields["id"] = [type |-> <<"ID", "!">>]
    /\ ObjectTypeOf(k).fields["sys"] = [type |-> <<"ContentfulSys", "!">>]
    /\ ObjectTypeOf(k).fields["metadata"] = [type |-> <<"ContentfulMetadata", "!">>]

\* C5: the keys of a registered object type are the three fixed keys and
\* the ids of the fields that are neither disabled nor omitted, so a skipped
\* field adds no key and every other field has its key; a skipped field is
\* not translated either: a translation error stops the run only when an
\* enabled field of the item cannot be translated.
C5_SkippedFieldsLeaveNoKey ==
  /\ \A k \in 1..itemsDone :
       DOMAIN ObjectTypeOf(k).fields =
         {"id", "sys", "metadata"} \cup EnabledIds(contentTypeItems[k])
  /\ (pc = "loop" /\ itemsDone < Len(contentTypeItems)) =>
       (ENABLED CreateContentType
          <=> Untranslatable(contentTypeItems[itemsDone + 1]) = {})

C5_Witness ==
  \E k \in 1..itemsDone :
    LET fieldList == contentTypeItems[k].fields
    IN  /\ Len(fieldList) = 2
        /\ fieldList[1].type = UnknownType
        /\ fieldList[1].omitted /\ ~fieldList[1].disabled
        /\ Enabled(fieldList[2])
        /\ fieldList[1].id \notin DOMAIN ObjectTypeOf(k).fields
        /\ fieldList[2].id \in DOMAIN ObjectTypeOf(k).fields

\* C6: when the build of a content type throws, the one error raised names
\* the content type (its sys.id when it has no name) and holds the original
\* error text; the run stops there, with the fixed types and the object
\* types of the items before it registered and nothing else.
C6_FailureIsAnnotatedAndFinal ==
  (pc = "failed" /\ fixedDone = NumFixed) =>
    LET item == contentTypeItems[itemsDone + 1]
        bad  == Untranslatable(item)
        original ==
          IF bad = {} THEN "Schema must contain uniquely named types"
          ELSE IF item.fields[CHOOSE i \in bad : \A j \in bad : i <= j].type = "Array"
          THEN "Cannot read properties of undefined (reading 'type')"
          ELSE "ContentfulDataTypes.get(...) is not a function"
    IN  /\ Contains(thrown, IF item.name = "" THEN item.sys.id ELSE item.name)
        /\ Contains(thrown, original)
        /\ Len(registered) = NumFixed + itemsDone
        /\ \A k \in 1..itemsDone :
             ObjectTypeOf(k).name = TypeNameOf(pluginConfig, contentTypeItems[k])
        /\ ~ENABLED Next

C6_Witness ==
  /\ pc = "failed"
  /\ fixedDone = NumFixed
  /\ itemsDone = 1
  /\ Len(contentTypeItems) = 2
  /\ contentTypeItems[2].name = ""
  /\ Untranslatable(contentTypeItems[2]) # {}
  /\ Len(registered) = NumFixed + 1

\* C8 as stated: an error of the registrar leaves generateSchema with the
\* registrar's own message, whichever declaration was refused.
C8_RegistrarErrorsUnchanged ==
  (pc = "failed" /\ refusal # "") =>
    thrown = <<"Schema must contain uniquely named types">>

\* C8 as amended: an error of the registrar leaves generateSchema with its
\* own message when a fixed declaration was refused; when a content type's
\* object type was refused, the error is the same one with its message
\* rewritten to "Unable to create schema for Contentful Content Type
\* <name or sys.id>:\n" followed by the registrar's message.
C8_RegistrarErrorsAmended ==
  (pc = "failed" /\ refusal # "") =>
    IF fixedDone < NumFixed
    THEN thrown = <<"Schema must contain uniquely named types">>
    ELSE LET item == contentTypeItems[itemsDone + 1]
         IN  thrown =
               <<"Unable to create schema for Contentful Content Type ",
                 IF item.name = "" THEN item.sys.id ELSE item.name,
                 ":\n",
                 "Schema must contain uniquely named types">>

C8_Witness ==
  /\ pc = "failed"
  /\ refusal = "createTypes"
  /\ fixedDone = NumFixed
  /\ itemsDone = 1
  /\ Len(thrown) = 4

\* C9: every registered type has inference switched off, except the
\* ContentfulReference interface and the ContentfulContentType type.
C9_InferenceDisabled ==
  \A i \in 1..Len(registered) :
    registered[i].name \notin {"ContentfulReference", "ContentfulContentType"}
      => registered[i].dontInfer

ExpectedFixedOrder ==
  <<"ContentfulReference", "ContentfulContentType", "ContentfulSys",
    "ContentfulEntry", "ContentfulMetadata", "ContentfulTag", "ContentfulAsset",
    "ContentfulRichTextAssets", "ContentfulRichTextEntries",
    "ContentfulRichTextLinks", "ContentfulRichText", "ContentfulLocation",
    "ContentfulText">>

NamesOf(decls) == [i \in 1..Len(decls) |-> decls[i].name]

IsPrefix(a, b) == Len(a) <= Len(b) /\ a = SubSeq(b, 1, Len(a))

\* C10: the registrar is handed the thirteen fixed declarations in the
\* stated order, each once, then one object type per content type item in
\* the order of contentTypeItems; whenever the loop has been reached (also
\* with no item, and also when the first item fails) all thirteen are
\* registered, and a run that returns has registered the whole list.
C10_RegistrationOrder ==
  LET whole == ExpectedFixedOrder \o
                 [k \in 1..Len(contentTypeItems) |->
                    TypeNameOf(pluginConfig, contentTypeItems[k])]
  IN  /\ IsPrefix(NamesOf(received), whole)
      /\ IsPrefix(NamesOf(registered), NamesOf(received))
      /\ Len(received) <= Len(registered) + 1
      /\ (\/ pc \in {"loop", "done"}
          \/ /\ pc = "failed"
             /\ thrown[1] = "Unable to create schema for Contentful Content Type ")
           => IsPrefix(ExpectedFixedOrder, NamesOf(registered))
      /\ pc = "done" => NamesOf(registered) = whole

C10_Witness ==
  /\ pc = "done"
  /\ Len(contentTypeItems) = 2
  /\ Len(registered) = Len(ExpectedFixedOrder) + 2
  /\ registered[Len(registered)].name # registered[Len(registered) - 1].name

(***************************************************************************)
(* Claims about the rich-text links resolver                               *)
(***************************************************************************)
\* C7: a resolver returns the nodes of the store that are owned by
\* gatsby-source-contentful, have the resolver's entity type as sys.type and
\* have a sys.id among the extracted ids, in store order, each once; and
\* the store is not read before generateSchema has returned.
C7_ResolverSelectsLinkedNodes ==
  /\ pc # "done" => (storeReads = 0 /\ lastResolve = <<>>)
  /\ lastResolve # <<>> =>
       LET wanted ==
             {i \in 1..Len(nodeStore) :
                /\ nodeStore[i].internal.owner = "gatsby-source-contentful"
                /\ "sys" \in DOMAIN nodeStore[i]
                /\ "id" \in DOMAIN nodeStore[i].sys
                /\ nodeStore[i].sys.type = lastResolve.entityType
                /\ \E n \in 1..Len(lastResolve.links) :
                     lastResolve.links[n] = nodeStore[i].sys.id}
           result == lastResolve.result
       IN  /\ Len(result) = Cardinality(wanted)
           /\ \A n \in 1..Len(result) :
                \E i \in wanted :
                  /\ result[n] = nodeStore[i]
                  /\ Cardinality({j \in wanted : j < i}) = n - 1

C7_Witness ==
  /\ lastResolve # <<>>
  /\ lastResolve.nodeType = "embedded-asset-block"
  /\ Len(nodeStore) = 2
  /\ nodeStore[1].internal.owner = "gatsby-source-filesystem"
  /\ nodeStore[1].sys = [type |-> "Asset", id |-> "a"]
  /\ nodeStore[2].internal.owner = "gatsby-source-contentful"
  /\ lastResolve.links = <<"a", "a">>
  /\ lastResolve.result = <<nodeStore[2]>>

====
